---- MODULE Spec2Model ----
(***************************************************************************)
(* Model of python-scripts/PlotProdCons.py: hourly production/consumption  *)
(* rows are read from the *-prod-cons.data files of a directory, bucketed  *)
(* by hour-of-week into the global rawData, and plotted as mean +- sigma.  *)
(*                                                                         *)
(* Text is modelled as TLA+ strings (Len, SubSeq and \o work on them).     *)
(* A Python float is modelled as an integer number of tenths; the texts    *)
(* the model enumerates have at most one fractional digit, 0 or 5, so      *)
(* every value and every difference computed is exact in binary floating  *)
(* point too.  The enumerated texts are made of digits, signs, the dot,    *)
(* white space and the letter x: exponents, inf, nan and digit-grouping    *)
(* underscores are outside the inputs.                                     *)
(***************************************************************************)
EXTENDS Integers, Sequences, FiniteSets, TLC

VARIABLES
    fs,        \* the data directory: its files, in the order glob enumerates them
    rawData,   \* the global store, one list of net values per hour-of-week
    stdout,    \* the lines printed so far
    pc,        \* where control is: "main", "collectData", "processFile", "aborted"
    files,     \* collectData: what the dataIter generator has yet to yield
    lines,     \* processFile: what of data.readlines() the loop has yet to visit
    caller,    \* processFile: who called it, "main" or "collectData"
    invoked,   \* the calls the top level has made so far, [fn, arg]
    ret,       \* the value the last completed top-level call returned
    exc,       \* the exception that ended the run, "" while there is none
    plot       \* what plt.errorbar was given, <<>> until plotMeans has shown it

vars == <<fs, rawData, stdout, pc, files, lines, caller, invoked, ret, exc, plot>>

-----------------------------------------------------------------------------
(* Program constants *)

NumBuckets == 168
HoursPerDay == 24
DaysPerWeek == 7

Separator == ", "
Pattern == "-prod-cons.data"   \* what follows the * of '*-prod-cons.data'

(* Python values: None is the empty tuple, a float f is <<f>> *)
None == <<>>
Float(v) == <<v>>

-----------------------------------------------------------------------------
(* Strings *)

Char(s, i) == SubSeq(s, i, i)

Whitespace == {" ", "\n", "\t"}
Digits == {"0", "1", "2", "3", "4", "5", "6", "7", "8", "9"}

DigitVal(c) ==
    CASE c = "0" -> 0 [] c = "1" -> 1 [] c = "2" -> 2 [] c = "3" -> 3
      [] c = "4" -> 4 [] c = "5" -> 5 [] c = "6" -> 6 [] c = "7" -> 7
      [] c = "8" -> 8 [] c = "9" -> 9

AllDigits(s) == \A i \in 1..Len(s) : Char(s, i) \in Digits

RECURSIVE DecVal(_)
DecVal(s) ==
    IF s = "" THEN 0
    ELSE 10 * DecVal(SubSeq(s, 1, Len(s) - 1)) + DigitVal(Char(s, Len(s)))

(* str.strip() as int() and float() apply it to their argument *)
Strip(s) ==
    LET keep == {i \in 1..Len(s) : Char(s, i) \notin Whitespace}
    IN  IF keep = {} THEN ""
        ELSE LET lo == CHOOSE i \in keep : \A j \in keep : i <= j
                 hi == CHOOSE i \in keep : \A j \in keep : j <= i
             IN  SubSeq(s, lo, hi)

StartsWith(s, p) == Len(s) >= Len(p) /\ SubSeq(s, 1, Len(p)) = p
EndsWith(s, p) == Len(s) >= Len(p) /\ SubSeq(s, Len(s) - Len(p) + 1, Len(s)) = p

(* The least position at which sep occurs in s, 0 when it does not *)
Find(s, sep) ==
    LET at == {i \in 1..(Len(s) - Len(sep) + 1) : SubSeq(s, i, i + Len(sep) - 1) = sep}
    IN  IF at = {} THEN 0 ELSE CHOOSE i \in at : \A j \in at : i <= j

(* str.split(sep): the pieces between the occurrences of sep, left to right *)
RECURSIVE Split(_, _)
Split(s, sep) ==
    LET i == Find(s, sep)
    IN  IF i = 0 THEN <<s>>
        ELSE <<SubSeq(s, 1, i - 1)>> \o Split(SubSeq(s, i + Len(sep), Len(s)), sep)

(* file.readlines(): the lines of a text, each with its newline kept *)
RECURSIVE ReadLines(_)
ReadLines(text) ==
    LET i == Find(text, "\n")
    IN  IF text = "" THEN <<>>
        ELSE IF i = 0 THEN <<text>>
        ELSE <<SubSeq(text, 1, i)>> \o ReadLines(SubSeq(text, i + 1, Len(text)))

(* An optional sign in front of the rest *)
Sign(s) == IF StartsWith(s, "-") THEN -1 ELSE 1
Unsigned(s) == IF StartsWith(s, "-") \/ StartsWith(s, "+") THEN SubSeq(s, 2, Len(s)) ELSE s

(* int(text): white space stripped, an optional sign, then digits only *)
PyInt(text) ==
    LET body == Unsigned(Strip(text))
    IN  IF body # "" /\ AllDigits(body)
        THEN [ok |-> TRUE, value |-> Sign(Strip(text)) * DecVal(body)]
        ELSE [ok |-> FALSE, value |-> 0]

(* float(text), in tenths: white space stripped, an optional sign, then
   digits with an optional dot among them and at least one digit.  Tenths
   hold one fractional digit: a text with more is not among the inputs. *)
PyFloat(text) ==
    LET body == Unsigned(Strip(text))
        dot  == Find(body, ".")
        whole == IF dot = 0 THEN body ELSE SubSeq(body, 1, dot - 1)
        frac  == IF dot = 0 THEN "" ELSE SubSeq(body, dot + 1, Len(body))
    IN  IF AllDigits(whole) /\ AllDigits(frac) /\ Len(whole) + Len(frac) > 0
           /\ Len(frac) <= 1
        THEN [ok |-> TRUE,
              value |-> Sign(Strip(text)) * (10 * DecVal(whole) + DecVal(frac))]
        ELSE [ok |-> FALSE, value |-> 0]

-----------------------------------------------------------------------------
(* Mutant: a blank string taken for the empty one *)
FloatMaybe_BlankIsEmpty(str) ==
    IF Strip(str) # ""
    THEN IF PyFloat(str).ok
         THEN [raised |-> "", result |-> PyFloat(str).value, out |-> <<>>]
         ELSE [raised |-> "ValueError", result |-> 0, out |-> <<>>]
    ELSE [raised |-> "", result |-> 0, out |-> <<"failed to float ">>]

(* floatMaybe(str): what it returns or raises, and what it prints *)

FloatMaybe(str) ==
    IF str # ""
    THEN IF PyFloat(str).ok
         THEN [raised |-> "", result |-> PyFloat(str).value, out |-> <<>>]
         ELSE [raised |-> "ValueError", result |-> 0, out |-> <<>>]
    ELSE [raised |-> "", result |-> 0, out |-> <<"failed to float ">>]

(* Mutant: the day taken as counting from 0 *)
Column_DayFromZero(dow, hod) == dow * HoursPerDay + hod

(* column = (dow - 1) * 24 + hod *)
Column(dow, hod) == (dow - 1) * HoursPerDay + hod

(* Mutant: negative indices refused, as a validated index would be *)
IndexOk_NonNegative(column) == 0 <= column /\ column < NumBuckets

(* rawData[column].append(net), with a Python list's indexing: a negative
   index counts from the end, an index outside -168..167 raises IndexError *)
IndexOk(column) == -NumBuckets <= column /\ column < NumBuckets
Bucket(column) == IF column < 0 THEN column + NumBuckets ELSE column

(* Mutant: the net value put in front of the bucket *)
AppendNet_Prepend(store, column, net) ==
    [store EXCEPT ![Bucket(column)] = <<net>> \o @]

(* Mutant: a value the bucket already holds is not added again *)
AppendNet_Once(store, column, net) ==
    IF \E i \in 1..Len(store[Bucket(column)]) : store[Bucket(column)][i] = net
    THEN store
    ELSE [store EXCEPT ![Bucket(column)] = Append(@, net)]

(* Mutant: the bucket replaced by the new value *)
AppendNet_Overwrite(store, column, net) ==
    [store EXCEPT ![Bucket(column)] = <<net>>]

(* rawData[column].append(net) *)
AppendNet(store, column, net) ==
    [store EXCEPT ![Bucket(column)] = Append(@, net)]

(* Mutant: rows of consumption exactly 0 kept *)
Contributes_ZeroKept(cons) == cons <= 0

(* if cons < 0.0: only these rows contribute *)
Contributes(cons) == cons < 0

(* One pass of processFile's loop body over `line`, from store `store`:
   the exception it raises ("" for none), the store and the output it leaves *)
ProcessRow(line, store) ==
    LET row  == Split(line, Separator)
        n    == Len(row)
        dow  == PyInt(row[2])
        hod  == PyInt(row[3])
        column == Column(dow.value, hod.value)
        prod == FloatMaybe(row[4])
        cons == FloatMaybe(row[5])
        net  == -prod.result - cons.result
    IN  IF n < 2 THEN [exc |-> "IndexError", store |-> store, out |-> <<>>]
        ELSE IF ~dow.ok THEN [exc |-> "ValueError", store |-> store, out |-> <<>>]
        ELSE IF n < 3 THEN [exc |-> "IndexError", store |-> store, out |-> <<>>]
        ELSE IF ~hod.ok THEN [exc |-> "ValueError", store |-> store, out |-> <<>>]
        ELSE IF n < 4 THEN [exc |-> "IndexError", store |-> store, out |-> <<>>]
        ELSE IF prod.raised # ""
             THEN [exc |-> prod.raised, store |-> store, out |-> <<>>]
        ELSE IF n < 5 THEN [exc |-> "IndexError", store |-> store, out |-> prod.out]
        ELSE IF cons.raised # ""
             THEN [exc |-> cons.raised, store |-> store, out |-> prod.out]
        ELSE IF ~Contributes(cons.result)
             THEN [exc |-> "", store |-> store, out |-> prod.out \o cons.out]
        ELSE IF ~IndexOk(column)
             THEN [exc |-> "IndexError", store |-> store, out |-> prod.out \o cons.out]
        ELSE [exc |-> "", store |-> AppendNet(store, column, net),
              out |-> prod.out \o cons.out]

(* Mutant: the pattern found anywhere in the name *)
Matches_Contains(name) == Find(name, Pattern) # 0

(* path.glob('*-prod-cons.data') on a file name *)
Matches(name) == EndsWith(name, Pattern)

(* dataIter(dataDir): the matching files, in enumeration order *)
RECURSIVE DataIter(_)
DataIter(dir) ==
    IF dir = <<>> THEN <<>>
    ELSE (IF Matches(Head(dir).name) THEN <<Head(dir).name>> ELSE <<>>)
         \o DataIter(Tail(dir))

(* open(dataFile, 'r'): the text of the file of that name *)
Content(name) ==
    LET i == CHOOSE i \in 1..Len(fs) : fs[i].name = name IN fs[i].text

(* rawData = [[] for x in range(168)] *)
EmptyStore == [b \in 0..(NumBuckets - 1) |-> <<>>]

-----------------------------------------------------------------------------
(* plotMeans *)

RECURSIVE Sum(_)
Sum(c) == IF c = <<>> THEN 0 ELSE Head(c) + Sum(Tail(c))

RECURSIVE SumSq(_)
SumSq(c) == IF c = <<>> THEN 0 ELSE Head(c) * Head(c) + SumSq(Tail(c))

(* c.mean() as the fraction <<sum, count>>: 0/0, NaN, for an empty column *)
Mean(c) == <<Sum(c), Len(c)>>

(* c.std() as the fraction <<n * sum of squares - square of sum, n * n>> whose
   square root it is: 0/0, NaN, for an empty column *)
Std(c) == <<Len(c) * SumSq(c) - Sum(c) * Sum(c), Len(c) * Len(c)>>

(* The columns of rawData differ in length *)
Ragged(store) == \E b \in DOMAIN store : Len(store[b]) # Len(store[0])

(* print('Shape:', np.shape(d)) *)
ShapeLine(store) ==
    IF Ragged(store) THEN "Shape: (" \o ToString(NumBuckets) \o ",)"
    ELSE "Shape: (" \o ToString(NumBuckets) \o ", " \o ToString(Len(store[0])) \o ")"

Figure(store) ==
    [x     |-> [i \in 1..NumBuckets |-> i - 1],
     means |-> [b \in DOMAIN store |-> Mean(store[b])],
     stds  |-> [b \in DOMAIN store |-> Std(store[b])]]

-----------------------------------------------------------------------------
(* Bounds and inputs *)

MaxFiles == 2     \* files in a directory
MaxCalls == 2     \* calls the top level makes
DayMargin == 8    \* day-of-week numbers tried on either side of 1..7
HourMargin == 2   \* hour-of-day numbers tried on either side of 0..23

DataDir == "games"

Line(dow, hod, prod, cons) ==
    "360" \o Separator \o dow \o Separator \o hod \o Separator \o prod
          \o Separator \o cons \o "\n"

DayTexts == {ToString(d) : d \in (1 - DayMargin)..(DaysPerWeek + DayMargin)}
HourTexts == {ToString(h) : h \in (0 - HourMargin)..(HoursPerDay - 1 + HourMargin)}
IntTexts == {"x", "", "1.0", " 2", "+3", "-"}
FieldTexts == {"", "2.0", "-5.0", "-1.0", "0.0", "-0.0", "1.5", "-3", " -0.5", "x", "."}

(* The texts floatMaybe is tried on: white space, a sign, digits, a dot
   and a fractional digit, and a tail, each present or not *)
FloatTexts ==
    {w \o g \o i \o f \o t :
        w \in {"", " "}, g \in {"", "-", "+"}, i \in {"", "0", "2", "15"},
        f \in {"", ".", ".0", ".5"}, t \in {"", "\n", "x"}}

(* One-row files: every day and hour around the valid ranges, every pair of
   production and consumption texts with and without the final newline,
   malformed integers, and rows of fewer or more than five fields *)
RowTexts ==
    {Line(d, h, "2.0", "-5.0") : d \in DayTexts, h \in HourTexts}
    \cup {Line("1", "0", p, c) : p \in FieldTexts, c \in FieldTexts}
    \cup {SubSeq(Line("1", "0", p, c), 1, Len(Line("1", "0", p, c)) - 1) :
              p \in FieldTexts, c \in FieldTexts}
    \cup {Line(d, "0", "2.0", "-5.0") : d \in IntTexts}
    \cup {Line("1", h, "2.0", "-5.0") : h \in IntTexts}
    \cup {"\n", "360, 1\n", "360, 1, 0\n", "360, 1, 0, 2.0\n", "360, 1, 0, , -1.0, 9\n",
          Line("9", "30", "2.0", "1.5"), Line("0", "-1", "", "0")}

(* Files of several rows: well-formed ones, one with a malformed row in the
   middle, an empty one *)
Texts ==
    { Line("1", "0", "2.0", "-5.0") \o Line("2", "3", "1.5", "0.0")
         \o Line("7", "23", "", "-1.0") \o Line("1", "0", "0.5", "-3"),
      Line("3", "5", "1.0", "-2.0") \o Line("x", "0", "2.0", "-5.0")
         \o Line("1", "0", "2.0", "-5.0"),
      "" }

Names == {"g1-prod-cons.data", "g2-prod-cons.data", "g3-prod-cons.data.bak"}

FileSet == [name : Names, text : Texts]

DistinctNames(dir) == \A i, j \in 1..Len(dir) : dir[i].name = dir[j].name => i = j

Directories ==
    {dir \in UNION {[1..n -> FileSet] : n \in 0..MaxFiles} : DistinctNames(dir)}

-----------------------------------------------------------------------------
(* The state after the module is loaded, over directory `dir` *)

Loaded(dir) ==
    /\ fs = dir
    /\ rawData = EmptyStore
    /\ stdout = <<>>
    /\ pc = "main"
    /\ files = <<>>
    /\ lines = <<>>
    /\ caller = "main"
    /\ invoked = <<>>
    /\ ret = None
    /\ exc = ""
    /\ plot = <<>>

Init ==
    \/ \E dir \in Directories : Loaded(dir)
    \/ \E text \in RowTexts : Loaded(<<[name |-> "g1-prod-cons.data", text |-> text]>>)

FileNames == {fs[i].name : i \in 1..Len(fs)}

(* The top level calls collectData(dataDir) *)
CallCollectData ==
    /\ pc = "main"
    /\ Len(invoked) < MaxCalls
    /\ invoked' = Append(invoked, [fn |-> "collectData", arg |-> DataDir])
    /\ files' = DataIter(fs)
    /\ pc' = "collectData"
    /\ UNCHANGED <<fs, rawData, stdout, lines, caller, ret, exc, plot>>

(* collectData's loop: the next file goes to processFile *)
CollectNext ==
    /\ pc = "collectData"
    /\ files # <<>>
    /\ lines' = ReadLines(Content(Head(files)))
    /\ files' = Tail(files)
    /\ caller' = "collectData"
    /\ pc' = "processFile"
    /\ UNCHANGED <<fs, rawData, stdout, invoked, ret, exc, plot>>

(* collectData returns when the generator is exhausted *)
CollectReturn ==
    /\ pc = "collectData"
    /\ files = <<>>
    /\ pc' = "main"
    /\ ret' = None
    /\ UNCHANGED <<fs, rawData, stdout, files, lines, caller, invoked, exc, plot>>

(* The top level calls processFile(dataFile) on a file of the directory *)
CallProcessFile ==
    /\ pc = "main"
    /\ Len(invoked) < MaxCalls
    /\ \E name \in FileNames :
          /\ invoked' = Append(invoked, [fn |-> "processFile", arg |-> name])
          /\ lines' = ReadLines(Content(name))
    /\ caller' = "main"
    /\ pc' = "processFile"
    /\ UNCHANGED <<fs, rawData, stdout, files, ret, exc, plot>>

(* Mutant: a row that fails is dropped and the loop goes on *)
ProcessLine_SkipsBadRow ==
    /\ pc = "processFile"
    /\ lines # <<>>
    /\ LET r == ProcessRow(Head(lines), rawData)
       IN  /\ rawData' = r.store
           /\ stdout' = stdout \o r.out
    /\ lines' = Tail(lines)
    /\ UNCHANGED <<fs, pc, files, caller, invoked, ret, exc, plot>>

(* processFile's loop body on the next line *)
ProcessLine ==
    /\ pc = "processFile"
    /\ lines # <<>>
    /\ LET r == ProcessRow(Head(lines), rawData)
       IN  /\ rawData' = r.store
           /\ stdout' = stdout \o r.out
           /\ exc' = r.exc
           /\ pc' = IF r.exc = "" THEN "processFile" ELSE "aborted"
    /\ lines' = Tail(lines)
    /\ UNCHANGED <<fs, files, caller, invoked, ret, plot>>

(* processFile returns None when the lines are exhausted *)
ProcessFileReturn ==
    /\ pc = "processFile"
    /\ lines = <<>>
    /\ pc' = caller
    /\ ret' = None
    /\ UNCHANGED <<fs, rawData, stdout, files, lines, caller, invoked, exc, plot>>

(* The top level calls plotMeans(): the shape is printed and the figure shown.
   np.shape of columns of different lengths is (168,) under a numpy that
   still builds a ragged array. *)
PlotMeans ==
    /\ pc = "main"
    /\ Len(invoked) < MaxCalls
    /\ invoked' = Append(invoked, [fn |-> "plotMeans", arg |-> ""])
    /\ stdout' = Append(stdout, ShapeLine(rawData))
    /\ plot' = Figure(rawData)
    /\ ret' = None
    /\ UNCHANGED <<fs, rawData, pc, files, lines, caller, exc>>

(* plotMeans() under a numpy that refuses a ragged array: np.shape raises *)
PlotMeansRagged ==
    /\ pc = "main"
    /\ Len(invoked) < MaxCalls
    /\ Ragged(rawData)
    /\ invoked' = Append(invoked, [fn |-> "plotMeans", arg |-> ""])
    /\ exc' = "ValueError"
    /\ pc' = "aborted"
    /\ UNCHANGED <<fs, rawData, stdout, files, lines, caller, ret, plot>>

Next ==
    \/ CallCollectData
    \/ CollectNext
    \/ CollectReturn
    \/ CallProcessFile
    \/ ProcessLine
    \/ ProcessFileReturn
    \/ PlotMeans
    \/ PlotMeansRagged

Spec == Init /\ [][Next]_vars

-----------------------------------------------------------------------------
(* floatMaybe on its own: the top level has called floatMaybe(str) *)

InitFloat ==
    \E str \in FloatTexts :
        /\ fs = <<>>
        /\ rawData = EmptyStore
        /\ stdout = <<>>
        /\ pc = "floatMaybe"
        /\ files = <<>>
        /\ lines = <<>>
        /\ caller = "main"
        /\ invoked = <<[fn |-> "floatMaybe", arg |-> str]>>
        /\ ret = None
        /\ exc = ""
        /\ plot = <<>>

FloatMaybeCall ==
    /\ pc = "floatMaybe"
    /\ LET r == FloatMaybe(invoked[Len(invoked)].arg)
       IN  /\ stdout' = stdout \o r.out
           /\ exc' = r.raised
           /\ ret' = IF r.raised = "" THEN Float(r.result) ELSE None
           /\ pc' = IF r.raised = "" THEN "main" ELSE "aborted"
    /\ UNCHANGED <<fs, rawData, files, lines, caller, invoked, plot>>

SpecFloat == InitFloat /\ [][FloatMaybeCall]_vars

-----------------------------------------------------------------------------
(* What the claims say of a row, read off the line the loop is about to
   process *)

Fields(line) == Split(line, Separator)

(* The row has its five fields and every one of them parses *)
Parses(line) ==
    /\ Len(Fields(line)) >= 5
    /\ PyInt(Fields(line)[2]).ok
    /\ PyInt(Fields(line)[3]).ok
    /\ FloatMaybe(Fields(line)[4]).raised = ""
    /\ FloatMaybe(Fields(line)[5]).raised = ""

DayOf(line) == PyInt(Fields(line)[2]).value
HourOf(line) == PyInt(Fields(line)[3]).value
ProdOf(line) == FloatMaybe(Fields(line)[4]).result
ConsOf(line) == FloatMaybe(Fields(line)[5]).result

ValidDayHour(line) == DayOf(line) \in 1..7 /\ HourOf(line) \in 0..23

(* The loop body is about to run on a line *)
AtLine == pc = "processFile" /\ lines # <<>>

(* C1: a row with consumption < 0, day-of-week in 1..7 and hour-of-day in
   0..23 appends exactly net = -production - consumption at the end of bucket
   (day - 1) * 24 + hour, raises nothing and leaves every other bucket as it
   was. *)
C1_RowAppendsNet ==
    [][(AtLine /\ Parses(Head(lines)) /\ ConsOf(Head(lines)) < 0
               /\ ValidDayHour(Head(lines)))
        => /\ exc' = ""
           /\ rawData' = [rawData EXCEPT
                 ![(DayOf(Head(lines)) - 1) * 24 + HourOf(Head(lines))] =
                     @ \o <<-ProdOf(Head(lines)) - ConsOf(Head(lines))>>]]_vars

(* production 2.0 and consumption -5.0 have appended 3.0 to bucket 0, and a
   later row of the same hour 2.5 behind it *)
C1_Witness ==
    /\ rawData[0] = <<30, 25>>
    /\ rawData[167] = <<10>>
    /\ \A b \in 1..166 : rawData[b] = <<>>

(* C2: for day-of-week in 1..7 and hour-of-day in 0..23 the bucket index lies
   in 0..167 and no two pairs share one: the 168 pairs take 168 indices, and
   the bucket a row lands in gives its day and hour back. *)
C2_IndexCollisionFree ==
    /\ {Column(d, h) : d \in 1..7, h \in 0..23} = 0..167
    /\ [][(AtLine /\ Parses(Head(lines)) /\ ConsOf(Head(lines)) < 0
                  /\ ValidDayHour(Head(lines)))
           => \E b \in 0..167 :
                 /\ rawData'[b] # rawData[b]
                 /\ \A o \in 0..167 : o # b => rawData'[o] = rawData[o]
                 /\ b \div 24 + 1 = DayOf(Head(lines))
                 /\ b % 24 = HourOf(Head(lines))]_vars

(* the last pair, day 7 hour 23, has landed in the last bucket *)
C2_Witness ==
    /\ fs = <<[name |-> "g1-prod-cons.data", text |-> Line("7", "23", "2.0", "-5.0")]>>
    /\ rawData[167] = <<30>>

(* C3: a row that parses and whose consumption is >= 0, exactly 0 included,
   is skipped: nothing is raised, every bucket stays as it was, and nothing
   is printed when neither number field is empty. *)
C3_NonNegativeSkipped ==
    [][(AtLine /\ Parses(Head(lines)) /\ ConsOf(Head(lines)) >= 0)
        => /\ exc' = ""
           /\ pc' = "processFile"
           /\ rawData' = rawData
           /\ (Fields(Head(lines))[4] # "" /\ Fields(Head(lines))[5] # ""
                 => stdout' = stdout)]_vars

(* a file of the one row with consumption 0.0 has been processed *)
C3_Witness ==
    /\ fs = <<[name |-> "g1-prod-cons.data", text |-> Line("1", "0", "2.0", "0.0")]>>
    /\ invoked = <<[fn |-> "processFile", arg |-> "g1-prod-cons.data"]>>
    /\ pc = "main"
    /\ rawData = EmptyStore
    /\ exc = ""

(* The fields of a row as the input format has them: the newline ends the
   line and belongs to no field *)
Chomp(line) == IF EndsWith(line, "\n") THEN SubSeq(line, 1, Len(line) - 1) ELSE line
RowFields(line) == Split(Chomp(line), Separator)

(* A number field is empty or a valid number *)
EmptyOrNumber(field) == field = "" \/ PyFloat(field).ok

(* C4: in a line ending with a newline, an empty production or consumption
   field is no error: it counts as 0.0 and a diagnostic is printed, so empty
   production with consumption c < 0 appends -c, and empty consumption makes
   the row a skipped consumption-0.0 row. *)
C4_EmptyFieldIsZero ==
    [][(/\ AtLine
        /\ EndsWith(Head(lines), "\n")
        /\ Len(RowFields(Head(lines))) >= 5
        /\ PyInt(RowFields(Head(lines))[2]).ok
        /\ PyInt(RowFields(Head(lines))[3]).ok
        /\ ValidDayHour(Head(lines))
        /\ EmptyOrNumber(RowFields(Head(lines))[4])
        /\ EmptyOrNumber(RowFields(Head(lines))[5])
        /\ (RowFields(Head(lines))[4] = "" \/ RowFields(Head(lines))[5] = ""))
        => /\ exc' = ""
           /\ Len(stdout') > Len(stdout)
           /\ (RowFields(Head(lines))[5] = "" => rawData' = rawData)
           /\ (RowFields(Head(lines))[5] # ""
                  /\ PyFloat(RowFields(Head(lines))[5]).value < 0
                => rawData' = [rawData EXCEPT
                      ![(DayOf(Head(lines)) - 1) * 24 + HourOf(Head(lines))] =
                          @ \o <<-PyFloat(RowFields(Head(lines))[5]).value>>])]_vars

(* The top-level call floatMaybe(str) has ended, one way or the other *)
FloatMaybeEnded ==
    /\ pc # "floatMaybe"
    /\ invoked # <<>>
    /\ invoked[Len(invoked)].fn = "floatMaybe"

(* C5: floatMaybe has two branches.  The empty string returns 0.0, prints a
   diagnostic and raises nothing; a non-empty string returns the number
   float() parses when it is one, and otherwise fails with ValueError,
   printing nothing and returning nothing. *)
C5_FloatMaybeTwoBranches ==
    FloatMaybeEnded =>
        LET str == invoked[Len(invoked)].arg
        IN  /\ str = ""
               => pc = "main" /\ exc = "" /\ ret = <<0>>
                  /\ stdout = <<"failed to float ">>
            /\ (str # "" /\ PyFloat(str).ok)
               => pc = "main" /\ exc = "" /\ ret = <<PyFloat(str).value>>
                  /\ stdout = <<>>
            /\ (str # "" /\ ~PyFloat(str).ok)
               => pc = "aborted" /\ exc = "ValueError" /\ ret = <<>>
                  /\ stdout = <<>>

(* floatMaybe of a lone newline, not empty and no number, has raised *)
C5_Witness ==
    /\ FloatMaybeEnded
    /\ invoked[1].arg = "\n"
    /\ pc = "aborted"
    /\ exc = "ValueError"

(* A well-formed file: every row parses, with its day in 1..7 and its hour
   in 0..23 *)
WellFormed(text) ==
    \A i \in 1..Len(ReadLines(text)) :
        Parses(ReadLines(text)[i]) /\ ValidDayHour(ReadLines(text)[i])

(* What the rows of `rows` with consumption < 0 contribute, in row order:
   the index of each and its net value *)
RECURSIVE SamplesOf(_)
SamplesOf(rows) ==
    IF rows = <<>> THEN <<>>
    ELSE (IF ConsOf(Head(rows)) < 0
          THEN <<[index |-> (DayOf(Head(rows)) - 1) * 24 + HourOf(Head(rows)),
                  net |-> -ProdOf(Head(rows)) - ConsOf(Head(rows))]>>
          ELSE <<>>)
         \o SamplesOf(Tail(rows))

Samples(text) == SamplesOf(ReadLines(text))

(* The net values among `samples` of index b, in order *)
RECURSIVE At(_, _)
At(samples, b) ==
    IF samples = <<>> THEN <<>>
    ELSE (IF Head(samples).index = b THEN <<Head(samples).net>> ELSE <<>>)
         \o At(Tail(samples), b)

(* The top level has made exactly these calls and the last has returned *)
Returned(calls) == pc = "main" /\ invoked = calls

(* C6: processFile run twice on the same well-formed file, the store not
   reset in between, leaves every bucket holding that file's samples twice
   over, so the store differs from the store after one run whenever the file
   has a row with consumption < 0. *)
C6_TwiceAppendsTwice ==
    (/\ pc = "main"
     /\ Len(invoked) = 2
     /\ invoked[1].fn = "processFile"
     /\ invoked[2] = invoked[1]
     /\ WellFormed(Content(invoked[1].arg)))
    => LET once == Samples(Content(invoked[1].arg))
       IN  /\ \A b \in 0..167 : rawData[b] = At(once, b) \o At(once, b)
           /\ once # <<>> => rawData # [b \in 0..167 |-> At(once, b)]

(* the four-row file has gone through processFile twice *)
C6_Witness ==
    /\ Returned(<<[fn |-> "processFile", arg |-> "g1-prod-cons.data"],
                  [fn |-> "processFile", arg |-> "g1-prod-cons.data"]>>)
    /\ rawData[0] = <<30, 25, 30, 25>>
    /\ rawData[167] = <<10, 10>>

(* The names of the model's files that *-prod-cons.data matches *)
MatchingNames == {"g1-prod-cons.data", "g2-prod-cons.data"}

(* What the matching files of `dir` contribute, in enumeration order *)
RECURSIVE Expected(_)
Expected(dir) ==
    IF dir = <<>> THEN <<>>
    ELSE (IF Head(dir).name \in MatchingNames THEN Samples(Head(dir).text) ELSE <<>>)
         \o Expected(Tail(dir))

(* C7: from the empty store, collectData over a directory whose matching
   files are well-formed leaves in each bucket b exactly the net values of the
   rows with consumption < 0 and index b of the files matching
   *-prod-cons.data, and nothing of the other files; an empty directory leaves
   every bucket empty, and the single file of the row (day 1, hour 0,
   production 2, consumption -5) leaves [3] in bucket 0 and nothing else. *)
C7_CollectDataGathersMatching ==
    (Returned(<<[fn |-> "collectData", arg |-> DataDir]>>)
     /\ \A i \in 1..Len(fs) : fs[i].name \in MatchingNames => WellFormed(fs[i].text))
    => /\ LET expected == Expected(fs)
          IN  \A b \in 0..167 : rawData[b] = At(expected, b)
       /\ fs = <<>> => \A b \in 0..167 : rawData[b] = <<>>
       /\ fs = <<[name |-> "g1-prod-cons.data", text |-> "360, 1, 0, 2.0, -5.0\n"]>>
            => rawData[0] = <<30>> /\ \A b \in 1..167 : rawData[b] = <<>>

(* collectData has returned over a directory of a file that does not match,
   rows and all, and one that does *)
C7_Witness ==
    /\ Returned(<<[fn |-> "collectData", arg |-> DataDir]>>)
    /\ Len(fs) = 2
    /\ fs[1].name = "g3-prod-cons.data.bak"
    /\ fs[1].text = fs[2].text
    /\ fs[2].name = "g1-prod-cons.data"
    /\ rawData[0] = <<30, 25>>
    /\ rawData[167] = <<10>>

(* A row of five fields one of which does not parse: a malformed integer, or
   a number field that is neither empty nor a number *)
ParseError(line) ==
    /\ Len(Fields(line)) >= 5
    /\ \/ ~PyInt(Fields(line)[2]).ok
       \/ ~PyInt(Fields(line)[3]).ok
       \/ Fields(line)[4] # "" /\ ~PyFloat(Fields(line)[4]).ok
       \/ Fields(line)[5] # "" /\ ~PyFloat(Fields(line)[5]).ok

(* C8: a parse error is not handled and ends the run: the failing row
   appends nothing, and once a row has failed no step follows, so no later
   row of the file and no later file of the directory is processed. *)
C8_ParseErrorEndsRun ==
    [][/\ pc # "aborted"
       /\ (AtLine /\ ParseError(Head(lines)))
            => pc' = "aborted" /\ exc' = "ValueError" /\ rawData' = rawData]_vars

(* the second row of the first file has failed, with a row and a file left *)
C8_Witness ==
    /\ pc = "aborted"
    /\ exc = "ValueError"
    /\ invoked = <<[fn |-> "collectData", arg |-> DataDir]>>
    /\ lines # <<>>
    /\ files # <<>>
    /\ rawData[53] = <<10>>

(* s is a prefix of t *)
IsPrefix(s, t) == Len(s) <= Len(t) /\ SubSeq(t, 1, Len(s)) = s

(* C9: the store has exactly 168 buckets in every state, all empty at the
   start; every step only appends to buckets, and plotMeans leaves the store
   as it was. *)
C9_StoreAppendOnly ==
    /\ DOMAIN rawData = 0..167
    /\ \A b \in 0..167 : rawData[b] = <<>>
    /\ [][/\ DOMAIN rawData' = 0..167
          /\ \A b \in 0..167 : IsPrefix(rawData[b], rawData'[b])
          /\ (invoked' # invoked /\ invoked'[Len(invoked')].fn = "plotMeans")
               => rawData' = rawData]_vars

(* plotMeans has shown the figure of a store that holds samples *)
C9_Witness ==
    /\ plot # <<>>
    /\ invoked = <<[fn |-> "processFile", arg |-> "g1-prod-cons.data"],
                   [fn |-> "plotMeans", arg |-> ""]>>
    /\ rawData[0] = <<30, 25>>
    /\ plot.means[0] = <<55, 2>>

(* C10: day-of-week and hour-of-day are not validated.  For a row with
   consumption < 0 whose index i = (day - 1) * 24 + hour is outside 0..167:
   when i >= 168 or i < -168 the row fails with IndexError and appends
   nothing; when -168 <= i <= -1 nothing is raised and the net value is
   appended to bucket i + 168. *)
C10_OutOfRangeIndex ==
    [][(AtLine /\ Parses(Head(lines)) /\ ConsOf(Head(lines)) < 0)
        => LET i == (DayOf(Head(lines)) - 1) * 24 + HourOf(Head(lines))
           IN  /\ (i >= 168 \/ i < -168)
                  => pc' = "aborted" /\ exc' = "IndexError" /\ rawData' = rawData
               /\ (-168 <= i /\ i <= -1)
                  => /\ exc' = ""
                     /\ rawData' = [rawData EXCEPT ![i + 168] =
                           @ \o <<-ProdOf(Head(lines)) - ConsOf(Head(lines))>>]]_vars

(* day 0, hour 0 has landed in bucket 144 *)
C10_Witness ==
    /\ fs = <<[name |-> "g1-prod-cons.data", text |-> Line("0", "0", "2.0", "-5.0")]>>
    /\ rawData[144] = <<30>>
    /\ exc = ""

====
